---- MODULE Spec2Model ----
(***************************************************************************)
(* Model of the retrieval core of LegalQA (src/pods/my_executors.py):      *)
(*   DocVectorIndexer  - vector store, /index and /search (top-k cosine)   *)
(*   KeyValueIndexer   - identifier-keyed store, /index and /search        *)
(*   WeightedRanker    - fusion of two weighted match lists                *)
(*                                                                         *)
(* Numbers.  Embeddings are 2-dimensional integer vectors whose L2 norm is *)
(* an integer dividing 5 times every component, so that every real number  *)
(* the code computes is represented exactly in fixed point:                *)
(*   a normalised component x           is stored as  5*x                  *)
(*   a square or a product of two       is stored as 25*x                  *)
(*   a distance (dot/2) and a score     is stored as 50*x                  *)
(* Zero vectors (0/0 = NaN in _norm) are not among the inputs.             *)
(***************************************************************************)
EXTENDS Integers, Sequences, FiniteSets, TLC

VARIABLES
    vstore,       \* DocVectorIndexer._docs: sequence of stored Documents
    kvstore,      \* KeyValueIndexer._docs: sequence of stored Documents
    vappended,    \* history: every batch given to DocVectorIndexer.index, in arrival order
    kvappended,   \* history: every batch given to KeyValueIndexer.index, in arrival order
    pc,           \* position of the /search request in flight
    docs,         \* the request's query Documents (embedding, matches)
    docs_none,    \* TRUE when the request carries docs = None
    top_k,        \* parameters['top_k'] of the request
    idx,          \* local of search: per query, the selected store positions
    dist,         \* local of search: per query, the distances of the selected
    snap,         \* history: the store as it was when search read the embeddings
    status,       \* "ok" or the exception that ended the request
    docs_matrix,  \* WeightedRanker.rank: one query Document per branch
    rk_top_k,     \* WeightedRanker.rank: parameters['top_k']
    rk_pc,        \* WeightedRanker.rank: "ready" or "done"
    rk_status,    \* WeightedRanker.rank: "ok" or the exception raised
    result_da     \* WeightedRanker.rank: the returned DocumentArray

vars == <<vstore, kvstore, vappended, kvappended, pc, docs, docs_none, top_k,
          idx, dist, snap, status, docs_matrix, rk_top_k, rk_pc, rk_status,
          result_da>>

store_vars == <<vstore, kvstore, vappended, kvappended, pc, docs, docs_none,
                top_k, idx, dist, snap, status>>

rank_vars == <<docs_matrix, rk_top_k, rk_pc, rk_status, result_da>>

(***************************************************************************)
(* Bounds of the model.                                                    *)
(***************************************************************************)
MaxDocs == 3        \* records in the vector store

MaxBatch == 2       \* records in one /index batch

MaxQueries == 1     \* query Documents in one /search request

MaxTopK == 3        \* largest top_k requested

MaxMatches == 2     \* matches of one branch handed to the ranker

(***************************************************************************)
(* Input domains.                                                          *)
(***************************************************************************)
\* Embeddings the encoder hands to the index: not all of unit length, one
\* parallel to the query, one opposite to it, one in between.  Equal
\* similarities arise from records with the same embedding.
DocEmbeds == {<<6, 8>>, <<-3, -4>>, <<5, 0>>}

QueryEmbeds == {<<3, 4>>}

\* parent identifier carried by a chunk with the given embedding
ParentOf(e) ==
    CASE e = <<6, 8>> -> "a"
      [] e = <<-3, -4>> -> "b"
      [] OTHER -> "c"

\* the parent Documents, in the order ingestion sends them to the key-value
\* store; no record has identifier "c"
KVDocs == <<[id |-> "a", text |-> "foo"], [id |-> "b", text |-> "bar"]>>

TopKs == (0 - 2)..MaxTopK

NoScores == {}

Min(a, b) == IF a <= b THEN a ELSE b

Max(a, b) == IF a >= b THEN a ELSE b

Range(s) == {s[i] : i \in 1..Len(s)}

\* value of the score called name in a Document's scores mapping
ScoreOf(d, name) == (CHOOSE p \in d.scores : p[1] = name)[2]

\* d.scores[name] = v
SetScore(d, name, v) ==
    [d EXCEPT !.scores = {p \in d.scores : p[1] # name} \cup {<<name, v>>}]

(***************************************************************************)
(* Module-level numeric helpers, my_executors.py lines 311-342.            *)
(* A matrix is a sequence of rows.                                         *)
(***************************************************************************)
RECURSIVE DotUpTo(_, _, _)
DotUpTo(row, col, n) ==
    IF n = 0 THEN 0 ELSE DotUpTo(row, col, n - 1) + row[n] * col[n]

\* np.sqrt on the perfect squares that occur
Sqrt(n) == CHOOSE r \in 0..n : r * r = n

\* np.linalg.norm(A, ord=2, axis=1): the L2 norm of one row
L2(v) == Sqrt(DotUpTo(v, v, Len(v)))

\* A / np.linalg.norm(A, ord=2, axis=1, keepdims=True); result in units of 1/5
_norm(A) == [i \in 1..Len(A) |-> [k \in 1..Len(A[i]) |-> (5 * A[i][k]) \div L2(A[i])]]

\* np.ones((x, y))
_get_ones(x, y) == [i \in 1..x |-> [k \in 1..y |-> 1]]

\* A_ext = [ 1 | A | A**2 ]: nA rows of 3*dim columns
_ext_A(A) ==
    LET nA == Len(A)
        dim == Len(A[1])
        ones == _get_ones(nA, dim * 3)
    IN  [i \in 1..nA |->
            [k \in 1..(3 * dim) |->
                IF k <= dim THEN ones[i][k]
                ELSE IF k <= 2 * dim THEN A[i][k - dim]
                ELSE A[i][k - 2 * dim] * A[i][k - 2 * dim]]]

\* _ext_B with the factor of the cross term lost: -B.T for -2.0 * B.T
ext_B_single(B) ==
    LET nB == Len(B)
        dim == Len(B[1])
    IN  [k \in 1..(3 * dim) |->
            [j \in 1..nB |->
                IF k <= dim THEN B[j][k] * B[j][k]
                ELSE IF k <= 2 * dim THEN (0 - 1) * B[j][k - dim]
                ELSE 1]]

\* B_ext = [ (B**2).T ; -2.0 * B.T ; 1 ]: 3*dim rows of nB columns
_ext_B(B) ==
    LET nB == Len(B)
        dim == Len(B[1])
        ones == _get_ones(dim * 3, nB)
    IN  [k \in 1..(3 * dim) |->
            [j \in 1..nB |->
                IF k <= dim THEN B[j][k] * B[j][k]
                ELSE IF k <= 2 * dim THEN (0 - 2) * B[j][k - dim]
                ELSE ones[k][j]]]

\* A.dot(B) for A of shape (n, m) and B of shape (m, p); units of 1/25
Dot(A, B) ==
    [i \in 1..Len(A) |->
        [j \in 1..Len(B[1]) |->
            DotUpTo(A[i], [k \in 1..Len(B) |-> B[k][j]], Len(B))]]

\* A_norm_ext.dot(B_norm_ext).clip(min=0) / 2; the halving turns units of
\* 1/25 into units of 1/50, so the stored number is unchanged
_cosine(A_norm_ext, B_norm_ext) ==
    LET d == Dot(A_norm_ext, B_norm_ext)
    IN  [i \in 1..Len(d) |-> [j \in 1..Len(d[i]) |-> Max(d[i][j], 0)]]

\* d.scores['cosine'] = 1 - _dist, in units of 1/50
CosineScore(_dist) == 50 - _dist

(***************************************************************************)
(* numpy selection primitives.  argsort (default kind, not stable) and     *)
(* argpartition leave the order of equal keys unspecified: each is the set *)
(* of index rows it may return.  Positions are 1-based here.               *)
(***************************************************************************)
Perms(n) == {p \in [1..n -> 1..n] : \A i, j \in 1..n : i # j => p[i] # p[j]}

\* row.argsort(): the indices in non-decreasing order of their keys
argsort(row) ==
    {p \in Perms(Len(row)) :
        \A i, j \in 1..Len(row) : i < j => row[p[i]] <= row[p[j]]}

\* an argpartition that partitions nothing: the indices in any order
argpartition_any(row, kth) == Perms(Len(row))

\* row.argpartition(kth): the element at (0-based, possibly negative) position
\* kth is where a sort would put it, smaller keys before it, larger after
argpartition(row, kth) ==
    LET n == Len(row)
        pos == (IF kth < 0 THEN kth + n ELSE kth) + 1
    IN  {p \in Perms(n) :
            /\ \A i \in 1..n : i < pos => row[p[i]] <= row[p[pos]]
            /\ \A i \in 1..n : i > pos => row[p[i]] >= row[p[pos]]}

\* np.take_along_axis(row, ix, axis=1) on one row
take_along_axis(row, ix) == [i \in 1..Len(ix) |-> row[ix[i]]]

\* Python's s[:k], k of either sign
SliceTo(s, k) ==
    IF k >= 0 THEN SubSeq(s, 1, Min(k, Len(s)))
    ELSE SubSeq(s, 1, Max(Len(s) + k, 0))

\* ValueError "kth(=..) out of bounds": argpartition is reached when k < n
KthOutOfBounds(n, k) == k < n /\ k < 0 - n

\* DocVectorIndexer._get_sorted_top_k on one row of dist: the set of
\* (idx, dist) pairs the call may return
SortedTopKRow(row, k) ==
    IF k >= Len(row)
    THEN {[idx |-> SliceTo(p, k), dist |-> take_along_axis(row, SliceTo(p, k))] :
             p \in argsort(row)}
    ELSE UNION {
             LET idx_ps == SliceTo(ps, k)
                 d1 == take_along_axis(row, idx_ps)
             IN  {[idx |-> take_along_axis(idx_ps, idx_fs),
                   dist |-> take_along_axis(d1, idx_fs)] : idx_fs \in argsort(d1)} :
             ps \in argpartition(row, k)}

RECURSIVE RowWise(_, _)
RowWise(m, k) ==
    IF Len(m) = 0 THEN {<<>>}
    ELSE {<<h>> \o t : h \in SortedTopKRow(m[1], k), t \in RowWise(Tail(m), k)}

\* DocVectorIndexer._get_sorted_top_k(dist, top_k): every (idx, dist) it may return
_get_sorted_top_k(m, k) ==
    {[idx |-> [i \in 1..Len(r) |-> r[i].idx], dist |-> [i \in 1..Len(r) |-> r[i].dist]] :
        r \in RowWise(m, k)}

(***************************************************************************)
(* Stores (DocumentArrayMemmap) and Documents.                             *)
(***************************************************************************)
\* an extend that loses the last record of the batch
extend_drop_last(store, batch) == store \o SubSeq(batch, 1, Len(batch) - 1)

\* an extend that puts the batch in front of what is stored
extend_front(store, batch) == batch \o store

\* DocumentArrayMemmap.extend(docs): the batch is added after what is stored
extend(store, batch) == store \o batch

\* self._docs[int(_id)]: the record at a (1-based) position
getitem(store, i) == store[i]

\* self._docs[match.parent_id]: the record with that identifier
HasKey(store, key) == \E i \in 1..Len(store) : store[i].id = key

\* a lookup that ignores the key and returns the first record
getitem_first(store, key) == store[1]

getitem_by_id(store, key) == store[CHOOSE i \in 1..Len(store) : store[i].id = key]

\* match.update(extracted_doc): the fields set in the stored record
\* (identifier and text) overwrite the match's
update(match, extracted_doc) ==
    [match EXCEPT !.id = extracted_doc.id, !.text = extracted_doc.text]

\* a chunk Document as the encoder hands it to /index
NewDoc(n, e) ==
    [id |-> "d" \o ToString(n), parent_id |-> ParentOf(e), embedding |-> e,
     text |-> "chunk", scores |-> NoScores]

SeqsUpTo(S, lo, hi) == UNION {[1..n -> S] : n \in lo..hi}

\* batches of /index for the vector store: fresh identifiers, in order
VecBatches(first) ==
    {[i \in 1..Len(es) |-> NewDoc(first + i - 1, es[i])] :
        es \in SeqsUpTo(DocEmbeds, 1, MaxBatch)}

\* batches of /index for the key-value store: the next parent Documents
KVBatches(sent) ==
    {SubSeq(KVDocs, sent + 1, sent + n) :
        n \in 1..Min(MaxBatch, Len(KVDocs) - sent)}

\* query batches of /search
QueryBatches ==
    {[i \in 1..Len(es) |-> [embedding |-> es[i], matches |-> <<>>]] :
        es \in SeqsUpTo(QueryEmbeds, 0, MaxQueries)}

embeddings(da) == [i \in 1..Len(da) |-> da[i].embedding]

(***************************************************************************)
(* DocVectorIndexer                                                        *)
(***************************************************************************)
\* DocVectorIndexer.index, lines 216-218; it may run while a search is in flight
VecIndex ==
    /\ \E batch \in VecBatches(Len(vappended) + 1) :
        /\ Len(vstore) + Len(batch) <= MaxDocs
        /\ vstore' = extend(vstore, batch)
        /\ vappended' = vappended \o batch
    /\ UNCHANGED <<kvstore, kvappended, pc, docs, docs_none, top_k, idx, dist,
                   snap, status>>
    /\ UNCHANGED rank_vars

\* dists of lines 224-228 for query batch q over the stored records
Dists(q, store) ==
    LET a == embeddings(q)
        b == embeddings(store)
        q_emb == _ext_A(_norm(a))
        d_emb == _ext_B(_norm(b))
    IN  _cosine(q_emb, d_emb)

\* DocVectorIndexer.search with docs = None, lines 222-223: returns at once
SearchNone ==
    /\ pc = "idle"
    /\ \E k \in TopKs : top_k' = k
    /\ docs_none' = TRUE
    /\ pc' = "searched"
    /\ UNCHANGED <<vstore, kvstore, vappended, kvappended, docs, idx, dist, snap,
                   status>>
    /\ UNCHANGED rank_vars

\* DocVectorIndexer.search, lines 224-229, when a step raises: np.stack of an
\* empty list (no query, or no stored record) and argpartition with kth out
\* of bounds raise ValueError
SearchRaise ==
    /\ pc = "idle"
    /\ \E q \in QueryBatches, k \in TopKs :
        /\ \/ Len(q) = 0
           \/ Len(vstore) = 0
           \/ KthOutOfBounds(Len(vstore), k)
        /\ docs' = q
        /\ top_k' = k
    /\ status' = "ValueError"
    /\ pc' = "failed"
    /\ UNCHANGED <<vstore, kvstore, vappended, kvappended, docs_none, idx, dist,
                   snap>>
    /\ UNCHANGED rank_vars

\* DocVectorIndexer.search, lines 224-229: read the stored embeddings, score
\* them and select
SearchScore ==
    /\ pc = "idle"
    /\ \E q \in QueryBatches, k \in TopKs :
        /\ Len(q) > 0
        /\ Len(vstore) > 0
        /\ ~KthOutOfBounds(Len(vstore), k)
        /\ docs' = q
        /\ top_k' = k
        /\ \E r \in _get_sorted_top_k(Dists(q, vstore), k) :
            /\ idx' = r.idx
            /\ dist' = r.dist
    /\ snap' = vstore
    /\ pc' = "scored"
    /\ UNCHANGED <<vstore, kvstore, vappended, kvappended, docs_none, status>>
    /\ UNCHANGED rank_vars

\* the matches lines 231-234 attach to one query: copies of the records now
\* at the selected positions, scored with the distances computed before
Attach(store, _ids, _dists) ==
    [k \in 1..Len(_ids) |->
        SetScore(getitem(store, _ids[k]), "cosine", CosineScore(_dists[k]))]

\* DocVectorIndexer.search, lines 230-234: the loop over the queries and their
\* selected positions, taken as one step; an index may have run since the
\* embeddings were read
SearchAttach ==
    /\ pc = "scored"
    /\ docs' = [i \in 1..Len(docs) |->
                   [docs[i] EXCEPT !.matches = @ \o Attach(vstore, idx[i], dist[i])]]
    /\ pc' = "searched"
    /\ UNCHANGED <<vstore, kvstore, vappended, kvappended, docs_none, top_k, idx,
                   dist, snap, status>>
    /\ UNCHANGED rank_vars

(***************************************************************************)
(* KeyValueIndexer                                                         *)
(***************************************************************************)
\* KeyValueIndexer.index, lines 257-259
KVIndex ==
    /\ \E batch \in KVBatches(Len(kvappended)) :
        /\ kvstore' = extend(kvstore, batch)
        /\ kvappended' = kvappended \o batch
    /\ UNCHANGED <<vstore, vappended, pc, docs, docs_none, top_k, idx, dist, snap,
                   status>>
    /\ UNCHANGED rank_vars

\* the loop of lines 264-266 over one Document's matches: the matches as the
\* loop leaves them, and whether it ran to its end (a missing key raises)
RECURSIVE HydrateMatches(_, _)
HydrateMatches(store, ms) ==
    IF Len(ms) = 0 THEN [ok |-> TRUE, ms |-> <<>>]
    ELSE IF ~HasKey(store, ms[1].parent_id) THEN [ok |-> FALSE, ms |-> ms]
    ELSE LET rest == HydrateMatches(store, Tail(ms))
         IN  [ok |-> rest.ok,
              ms |-> <<update(ms[1], getitem_by_id(store, ms[1].parent_id))>> \o rest.ms]

\* the loop of line 263 over the request's Documents
RECURSIVE HydrateDocs(_, _)
HydrateDocs(store, ds) ==
    IF Len(ds) = 0 THEN [ok |-> TRUE, ds |-> <<>>]
    ELSE LET h == HydrateMatches(store, ds[1].matches)
             first == [ds[1] EXCEPT !.matches = h.ms]
         IN  IF ~h.ok THEN [ok |-> FALSE, ds |-> <<first>> \o Tail(ds)]
             ELSE LET rest == HydrateDocs(store, Tail(ds))
                  IN  [ok |-> rest.ok, ds |-> <<first>> \o rest.ds]

\* KeyValueIndexer.query, lines 261-266, on the Documents search returned
KVQuery ==
    /\ pc = "searched"
    /\ ~docs_none
    /\ LET h == HydrateDocs(kvstore, docs)
       IN  /\ docs' = h.ds
           /\ pc' = IF h.ok THEN "hydrated" ELSE "failed"
           /\ status' = IF h.ok THEN "ok" ELSE "KeyError"
    /\ UNCHANGED <<vstore, kvstore, vappended, kvappended, docs_none, top_k, idx,
                   dist, snap>>
    /\ UNCHANGED rank_vars

\* KeyValueIndexer.query on docs = None: the loop of line 263 raises TypeError
KVQueryNone ==
    /\ pc = "searched"
    /\ docs_none
    /\ pc' = "failed"
    /\ status' = "TypeError"
    /\ UNCHANGED <<vstore, kvstore, vappended, kvappended, docs, docs_none, top_k,
                   idx, dist, snap>>
    /\ UNCHANGED rank_vars

\* the request leaves the executors: its Documents and locals are dropped
Respond ==
    /\ pc \in {"hydrated", "failed"}
    /\ pc' = "idle"
    /\ docs' = <<>>
    /\ docs_none' = FALSE
    /\ top_k' = 0
    /\ idx' = <<>>
    /\ dist' = <<>>
    /\ snap' = <<>>
    /\ status' = "ok"
    /\ UNCHANGED <<vstore, kvstore, vappended, kvappended>>
    /\ UNCHANGED rank_vars

(***************************************************************************)
(* WeightedRanker                                                          *)
(***************************************************************************)
\* matches a branch may hold: (parent identifier, cosine score in 1/50)
MatchChoices ==
    {[parent_id |-> "a", scores |-> {<<"cosine", 25>>}],
     [parent_id |-> "a", scores |-> {<<"cosine", 50>>}],
     [parent_id |-> "b", scores |-> {<<"cosine", 50>>}],
     [parent_id |-> "c", scores |-> {<<"cosine", 25>>}]}

Weights == {1, 2}

\* the query Document of one branch, with its weight and its matches
BranchDocs ==
    {[weight |-> w, matches |-> ms] :
        w \in Weights, ms \in SeqsUpTo(MatchChoices, 0, MaxMatches)}

\* docs_matrix: one DocumentArray (of the one query) per branch
DocsMatrices == SeqsUpTo(BranchDocs, 1, 2)

\* final_matches, a dict in insertion order, is the sequence of its values;
\* the key of a value is its parent_id
InDict(d, key) == \E i \in 1..Len(d) : d[i].parent_id = key

KeyIndex(d, key) == CHOOSE i \in 1..Len(d) : d[i].parent_id = key

\* a table that never looks for the key: every value goes last
DictSetAppend(d, key, doc) == Append(d, doc)

\* final_matches[key] = doc: a known key keeps its place, a new one goes last
DictSet(d, key, doc) ==
    IF InDict(d, key) THEN [d EXCEPT ![KeyIndex(d, key)] = doc]
    ELSE Append(d, doc)

\* m.scores['cosine'].value * d_mod.weight
Weighted(m, w) == ScoreOf(m, "cosine") * w

\* lines 289-290: one match of the first branch; the relevance is written
\* to the match itself and a copy is stored
FirstStep(d, m, w) ==
    LET scored == SetScore(m, "relevance", Weighted(m, w))
    IN  [table |-> DictSet(d, m.parent_id, scored), m |-> scored]

\* lines 288-290: the loop over the first branch's matches; table is
\* final_matches, ms the matches as the loop leaves them
RECURSIVE FirstBranch(_, _, _)
FirstBranch(acc, ms, w) ==
    IF Len(ms) = 0 THEN acc
    ELSE LET st == FirstStep(acc.table, ms[1], w)
         IN  FirstBranch([table |-> st.table, ms |-> Append(acc.ms, st.m)], Tail(ms), w)

\* lines 293-301: one match of the second branch
SecondStep(d, m, w) ==
    IF InDict(d, m.parent_id)
    THEN LET i == KeyIndex(d, m.parent_id)
         IN  [table |-> [d EXCEPT ![i] =
                           SetScore(d[i], "relevance",
                                    ScoreOf(d[i], "relevance") + Weighted(m, w))],
              m |-> m]
    ELSE LET scored == SetScore(m, "relevance", Weighted(m, w))
         IN  [table |-> DictSet(d, m.parent_id, scored), m |-> scored]

\* lines 292-301: the loop over the second branch's matches
RECURSIVE SecondBranch(_, _, _)
SecondBranch(acc, ms, w) ==
    IF Len(ms) = 0 THEN acc
    ELSE LET st == SecondStep(acc.table, ms[1], w)
         IN  SecondBranch([table |-> st.table, ms |-> Append(acc.ms, st.m)], Tail(ms), w)

\* lines 286-301: final_matches and the matches of both branches after the loops
Merge(d_mod1, d_mod2) ==
    LET first == FirstBranch([table |-> <<>>, ms |-> <<>>], d_mod1.matches, d_mod1.weight)
        second == SecondBranch([table |-> first.table, ms |-> <<>>],
                               d_mod2.matches, d_mod2.weight)
    IN  [final_matches |-> second.table, ms1 |-> first.ms, ms2 |-> second.ms]

\* an insertion that goes before the entries of equal relevance
InsertDescBeforeEqual(sorted, x) ==
    LET n == Cardinality({i \in 1..Len(sorted) :
                 ScoreOf(sorted[i], "relevance") > ScoreOf(x, "relevance")})
    IN  SubSeq(sorted, 1, n) \o <<x>> \o SubSeq(sorted, n + 1, Len(sorted))

\* where a stable descending sort puts x among the already sorted: after
\* every entry whose relevance is at least x's
InsertDesc(sorted, x) ==
    LET n == Cardinality({i \in 1..Len(sorted) :
                 ScoreOf(sorted[i], "relevance") >= ScoreOf(x, "relevance")})
    IN  SubSeq(sorted, 1, n) \o <<x>> \o SubSeq(sorted, n + 1, Len(sorted))

RECURSIVE SortFrom(_, _)
SortFrom(sorted, rest) ==
    IF Len(rest) = 0 THEN sorted ELSE SortFrom(InsertDesc(sorted, rest[1]), Tail(rest))

\* da.sort(key=lambda ma: ma.scores['relevance'].value, reverse=True), line
\* 304: list.sort, which keeps entries of equal key in their order
sort(da) == SortFrom(<<>>, da)

\* lines 303-305: the Document that holds the fused matches of one query
Fuse(final_matches, k) ==
    LET da == sort(final_matches)
    IN  [matches |-> SliceTo(da, k)]

\* WeightedRanker.rank, lines 283-307, for two branches
Rank ==
    /\ rk_pc = "ready"
    /\ Len(docs_matrix) = 2
    /\ LET merged == Merge(docs_matrix[1], docs_matrix[2])
       IN  /\ result_da' = <<Fuse(merged.final_matches, rk_top_k)>>
           /\ docs_matrix' = <<[docs_matrix[1] EXCEPT !.matches = merged.ms1],
                               [docs_matrix[2] EXCEPT !.matches = merged.ms2]>>
    /\ rk_status' = "ok"
    /\ rk_pc' = "done"
    /\ UNCHANGED rk_top_k
    /\ UNCHANGED store_vars

\* WeightedRanker.rank, line 284, for another number of branches: unpacking
\* the tuple of zip into d_mod1, d_mod2 raises ValueError
RankRaise ==
    /\ rk_pc = "ready"
    /\ Len(docs_matrix) # 2
    /\ rk_status' = "ValueError"
    /\ rk_pc' = "done"
    /\ UNCHANGED <<docs_matrix, rk_top_k, result_da>>
    /\ UNCHANGED store_vars

StoreInit ==
    /\ vstore = <<>>
    /\ kvstore = <<>>
    /\ vappended = <<>>
    /\ kvappended = <<>>
    /\ pc = "idle"
    /\ docs = <<>>
    /\ docs_none = FALSE
    /\ top_k = 0
    /\ idx = <<>>
    /\ dist = <<>>
    /\ snap = <<>>
    /\ status = "ok"

RankIdle ==
    /\ docs_matrix = <<>>
    /\ rk_top_k = 0
    /\ rk_pc = "off"
    /\ rk_status = "ok"
    /\ result_da = <<>>

Init == StoreInit /\ RankIdle

Next ==
    \/ VecIndex
    \/ KVIndex
    \/ SearchNone
    \/ SearchRaise
    \/ SearchScore
    \/ SearchAttach
    \/ KVQuery
    \/ KVQueryNone
    \/ Respond

Spec == Init /\ [][Next]_vars

\* the ranker alone, on every pair of branches within the bounds
RankInit ==
    /\ StoreInit
    /\ docs_matrix \in DocsMatrices
    /\ rk_top_k \in TopKs
    /\ rk_pc = "ready"
    /\ rk_status = "ok"
    /\ result_da = <<>>

RankNext ==
    \/ Rank
    \/ RankRaise

SpecRank == RankInit /\ [][RankNext]_vars

(***************************************************************************)
(* Vocabulary of the properties.                                           *)
(***************************************************************************)
\* the fused matches of the one query
Fused == result_da[1].matches

RankDone == rk_pc = "done" /\ rk_status = "ok"

\* all matches handed to the ranker, branch after branch
RECURSIVE BranchMatches(_)
BranchMatches(dm) ==
    IF Len(dm) = 0 THEN <<>> ELSE dm[1].matches \o BranchMatches(Tail(dm))

SeenParents == {m.parent_id : m \in Range(BranchMatches(docs_matrix))}

\* position at which a parent identifier is first seen
FirstSeen(p) ==
    LET all == BranchMatches(docs_matrix)
    IN  CHOOSE i \in 1..Len(all) :
            all[i].parent_id = p /\ \A j \in 1..(i - 1) : all[j].parent_id # p

RECURSIVE WeightedSum(_, _, _)
WeightedSum(ms, w, p) ==
    IF Len(ms) = 0 THEN 0
    ELSE (IF ms[1].parent_id = p THEN ScoreOf(ms[1], "cosine") * w ELSE 0)
         + WeightedSum(Tail(ms), w, p)

\* sum of cosine * weight over every match of every branch with parent p
RECURSIVE TotalRelevance(_, _)
TotalRelevance(dm, p) ==
    IF Len(dm) = 0 THEN 0
    ELSE WeightedSum(dm[1].matches, dm[1].weight, p) + TotalRelevance(Tail(dm), p)

\* the search handler has returned its matches
Searched == pc = "searched" /\ ~docs_none

\* similarity of a query embedding and a stored embedding, as search scores it
Similarity(qe, de) ==
    CosineScore(Dists(<<[embedding |-> qe]>>, <<[embedding |-> de]>>)[1][1])

\* cosine of the angle between two vectors, in units of 1/50
CosRef(a, b) == (50 * DotUpTo(a, b, Len(a))) \div (L2(a) * L2(b))

Stored(m) == [m EXCEPT !.scores = NoScores]

(***************************************************************************)
(* C1.  RankFusion on a pair of branches and top_k >= 1: no two fused      *)
(* matches share a parent identifier, and the output length is             *)
(* min(top_k, number of distinct parent identifiers seen).                 *)
(***************************************************************************)
C1_FusionUnique ==
    (rk_pc = "done" /\ Len(docs_matrix) = 2 /\ rk_top_k >= 1) =>
        /\ rk_status = "ok"
        /\ \A i, j \in 1..Len(Fused) :
               i # j => Fused[i].parent_id # Fused[j].parent_id
        /\ Len(Fused) = Min(rk_top_k, Cardinality(SeenParents))

\* a fusion of two parents, one of them met twice in the first branch and
\* again in the second, cut to one
C1_Witness ==
    /\ RankDone
    /\ Len(docs_matrix) = 2
    /\ rk_top_k = 1
    /\ Cardinality(SeenParents) = 2
    /\ Len(Fused) = 1
    /\ \E p \in SeenParents :
        /\ Cardinality({i \in 1..Len(docs_matrix[1].matches) :
                            docs_matrix[1].matches[i].parent_id = p}) = 2
        /\ \E m \in Range(docs_matrix[2].matches) : m.parent_id = p

(***************************************************************************)
(* C2.  RankFusion: the relevance of each fused entry is the sum over every *)
(* branch and every match of that branch with the entry's parent           *)
(* identifier of cosine * branch weight; stated here for the two branches  *)
(* the ranker unpacks (any other number raises ValueError, see RankRaise). *)
(***************************************************************************)
C2_RelevanceIsSum ==
    (rk_pc = "done" /\ Len(docs_matrix) = 2) =>
        /\ rk_status = "ok"
        /\ \A i \in 1..Len(Fused) :
               ScoreOf(Fused[i], "relevance") =
                   TotalRelevance(docs_matrix, Fused[i].parent_id)

(***************************************************************************)
(* C3.  TopKSelector, top_k >= 1: the matches of every query are in        *)
(* non-increasing order of similarity, and every stored item that is not   *)
(* returned is at most as similar as every returned one; with top_k >= N   *)
(* all N stored items are returned.                                        *)
(***************************************************************************)
C3_TopKOrderedAndBest ==
    (Searched /\ top_k >= 1) =>
        \A i \in 1..Len(docs) :
            LET ms == docs[i].matches
                returned == {ms[k].id : k \in 1..Len(ms)}
            IN  /\ \A k, l \in 1..Len(ms) :
                       k < l => ScoreOf(ms[k], "cosine") >= ScoreOf(ms[l], "cosine")
                /\ \A j \in 1..Len(snap) :
                       snap[j].id \notin returned =>
                           \A k \in 1..Len(ms) :
                               Similarity(docs[i].embedding, snap[j].embedding)
                                   <= ScoreOf(ms[k], "cosine")
                /\ top_k >= Len(snap) => returned = {snap[j].id : j \in 1..Len(snap)}

\* the partial-selection path: two of three stored records returned, the
\* three of different similarity
C3_Witness ==
    /\ Searched
    /\ top_k = 2
    /\ Len(snap) = 3
    /\ Len(docs) = 1
    /\ Len(docs[1].matches) = 2
    /\ Cardinality({Similarity(docs[1].embedding, snap[j].embedding) : j \in 1..3}) = 3

(***************************************************************************)
(* C4.  TopKSelector: every query gets min(top_k, N) matches; with an      *)
(* empty corpus (N = 0) or an empty query batch the search does not fail   *)
(* and returns empty results.                                              *)
(***************************************************************************)
C4_SizeAndEmptyCorpus ==
    (pc # "idle" /\ top_k >= 1) =>
        /\ status # "ValueError"
        /\ Searched =>
               \A i \in 1..Len(docs) :
                   Len(docs[i].matches) = Min(top_k, Len(snap))

(***************************************************************************)
(* C5.  The 'cosine' score of a match is the cosine similarity of query    *)
(* and stored embedding.  As claimed: clipped to [0, 1], never negative.   *)
(* As amended: not clipped, a value in [-1, 1], negative for an obtuse     *)
(* angle and -1 for opposite vectors.                                      *)
(***************************************************************************)
\* C5 as claimed: the score is the cosine clipped to [0, 1]
C5_CosineClipped ==
    Searched =>
        \A i \in 1..Len(docs) : \A m \in Range(docs[i].matches) :
            /\ ScoreOf(m, "cosine") = Max(0, CosRef(docs[i].embedding, m.embedding))
            /\ ScoreOf(m, "cosine") >= 0

\* C5 as amended: the score is the cosine itself, between -1 and 1
C5_CosineUnclipped ==
    Searched =>
        \A i \in 1..Len(docs) : \A m \in Range(docs[i].matches) :
            /\ ScoreOf(m, "cosine") = CosRef(docs[i].embedding, m.embedding)
            /\ ScoreOf(m, "cosine") >= 0 - 50
            /\ ScoreOf(m, "cosine") <= 50

\* a match whose embedding is opposite to the query: score -1
C5_Witness ==
    /\ Searched
    /\ \E i \in 1..Len(docs) : \E m \in Range(docs[i].matches) :
        /\ m.embedding = <<-3, -4>>
        /\ docs[i].embedding = <<3, 4>>
        /\ ScoreOf(m, "cosine") = 0 - 50

(***************************************************************************)
(* C6.  KeyValueStore hydration (KeyValueIndexer.query): when every        *)
(* match's parent identifier is in the store, the request comes back with  *)
(* every match carrying the text of the stored record with that            *)
(* identifier; when a parent identifier is absent, the request fails with  *)
(* KeyError (NotFound) and no result is returned.                          *)
(***************************************************************************)
C6_Hydration ==
    [][(Searched /\ pc' # pc) =>
          IF \A i \in 1..Len(docs) : \A m \in Range(docs[i].matches) :
                 \E r \in Range(kvstore) : r.id = m.parent_id
          THEN /\ pc' = "hydrated"
               /\ status' = "ok"
               /\ Len(docs') = Len(docs)
               /\ \A i \in 1..Len(docs) :
                      /\ Len(docs'[i].matches) = Len(docs[i].matches)
                      /\ \A k \in 1..Len(docs[i].matches) :
                             \E r \in Range(kvstore) :
                                 /\ r.id = docs[i].matches[k].parent_id
                                 /\ docs'[i].matches[k].text = r.text
          ELSE /\ pc' = "failed"
               /\ status' = "KeyError"]_vars

\* store {a: foo, b: bar}: a match of parent b hydrated with bar
C6_Witness ==
    /\ pc = "hydrated"
    /\ Len(kvstore) = 2
    /\ \E i \in 1..Len(docs) : \E m \in Range(docs[i].matches) :
        m.parent_id = "b" /\ m.text = "bar"

(***************************************************************************)
(* C7.  After any sequence of index and search operations each store is    *)
(* exactly the concatenation, in arrival order, of the batches appended to *)
(* it: appends add at the end, searches change no stored record.           *)
(***************************************************************************)
C7_StoresAppendOnly ==
    /\ vstore = vappended
    /\ kvstore = kvappended

\* both stores filled by more than one batch, and a search hydrated
C7_Witness ==
    /\ Len(vstore) > MaxBatch
    /\ Len(kvstore) = 2
    /\ pc = "hydrated"
    /\ Len(docs) > 0
    /\ Len(docs[1].matches) > 0

(***************************************************************************)
(* C8.  A search whose top_k is <= 0 is rejected before any computation:   *)
(* no match is attached to any query Document.                             *)
(***************************************************************************)
C8_BadTopKRejected ==
    top_k <= 0 =>
        \A i \in 1..Len(docs) : docs[i].matches = <<>>

(***************************************************************************)
(* C9.  When an append interleaves with a search, every match the search   *)
(* attaches is a record of the store as it was when the search read the    *)
(* embeddings, at the position selected then, and its score is the         *)
(* similarity of that record's embedding.                                  *)
(***************************************************************************)
C9_SnapshotConsistent ==
    Searched =>
        \A i \in 1..Len(docs) : \A k \in 1..Len(docs[i].matches) :
            LET m == docs[i].matches[k]
            IN  /\ idx[i][k] \in 1..Len(snap)
                /\ Stored(m) = snap[idx[i][k]]
                /\ ScoreOf(m, "cosine") =
                       Similarity(docs[i].embedding, snap[idx[i][k]].embedding)

\* matches attached while the store holds more records than the search read
C9_Witness ==
    /\ Searched
    /\ Len(vstore) > Len(snap)
    /\ Len(docs) > 0
    /\ Len(docs[1].matches) > 1

(***************************************************************************)
(* C10.  RankFusion: the fused output is in descending order of relevance, *)
(* entries of equal relevance in the order their parent identifiers were   *)
(* first seen, and it is the first top_k entries of that order.            *)
(***************************************************************************)
Before(x, y) ==
    \/ ScoreOf(x, "relevance") > ScoreOf(y, "relevance")
    \/ /\ ScoreOf(x, "relevance") = ScoreOf(y, "relevance")
       /\ FirstSeen(x.parent_id) < FirstSeen(y.parent_id)

C10_FusionOrder ==
    (RankDone /\ rk_top_k >= 0) =>
        LET table == Merge(docs_matrix[1], docs_matrix[2]).final_matches
        IN  /\ Len(Fused) = Min(rk_top_k, Len(table))
            /\ Range(Fused) \subseteq Range(table)
            /\ \A i, j \in 1..Len(Fused) : i < j => Before(Fused[i], Fused[j])
            /\ \A x \in Range(Fused) : \A y \in Range(table) \ Range(Fused) : Before(x, y)

\* two fused entries of equal relevance, and a third parent cut off
C10_Witness ==
    /\ RankDone
    /\ rk_top_k = 2
    /\ Len(Fused) = 2
    /\ Cardinality(SeenParents) = 3
    /\ ScoreOf(Fused[1], "relevance") = ScoreOf(Fused[2], "relevance")
    /\ FirstSeen(Fused[1].parent_id) > 1

====
